---- MODULE Spec2Model ----
(***************************************************************************)
(* Model of github.com/yinyin/go-otel-exporter-files:                      *)
(*   - trace/exporter.go : FilesTraceExporter (rotating on-disk spool)     *)
(*   - trace importer    : ImportTraceFile / ImportTraceFolder (replayer)  *)
(*                                                                         *)
(* The specifications are defined over one set of variables:               *)
(*   Spec       calls of ExportSpans / Shutdown that do not overlap        *)
(*   SpecEnv    Spec, a new Writer on the same folder, a removed folder    *)
(*   SpecConc   goroutines calling ExportSpans / Shutdown concurrently     *)
(*   SpecReader marshalSpans framing and ImportTraceFile over byte strings *)
(*                                                                         *)
(* Abstractions: a folder path is the tuple <<masked hour>>, a file name   *)
(* is <<encoded width, serial>> (both base32 encodings are injective), the *)
(* timestamps outputStartAt / outputLastWriteAt and the text of the _t     *)
(* marker are not kept.  Every file operation can fail.                    *)
(***************************************************************************)
EXTENDS Integers, Sequences, FiniteSets, TLC

\* ------------------------------------------------------------------ constants
outputHourMask == 16777215

outputSnBoundary == 2147483645

purgeRangeCount == 2

MaxRetainHours == 8760

MinFileSizeLimit == 1024

MaxInt32 == 2147483647

\* --------------------------------------------------------------------- bounds
\* Wall-clock hours (hours since the epoch) range over 0..MaxHour.
MaxHour == 2

\* Number of public calls in one behaviour of Spec.
MaxCalls == 3

\* ---------------------------------------------------------------- input sets
\* Encoded sizes of the batches handed to ExportSpans; 0 is the empty batch.
BatchSizes == {0, 400, 1100}

\* Retention windows configured (WithRetainHours clamps to 0..MaxRetainHours).
RetainChoices == {0, 1}

\* File operations of one call; a call's fault set names those that fail.
\* "short" is a Write that stores only a part of the buffer and fails.
IOOps == {"marshal", "close", "index", "mark", "mkdir", "rm0", "rm1", "open", "write", "short"}

FaultSets ==
    {{}} \cup {{op} : op \in IOOps}
         \cup {{"close", "index"}, {"close", "mark"}, {"index", "mark"}}

\* A Writer is observed from construction, or after it has already closed
\* outputSnBoundary segment files in the bucket of hour 0.
StartSerials == {0, outputSnBoundary}

\* SpecConc: two goroutines call ExportSpans, one calls Shutdown.
Exporters == {"e1", "e2"}

Procs == Exporters \cup {"sd"}

NoProc == "none"

\* SpecConc: calls made by each goroutine, and hours the clock moves on.
MaxCallsEach == 2

MaxShutdowns == 1

MaxTicks == 1

\* SpecReader: records in a segment file, bytes in a record, bytes cut off
\* the end of the file (9 bytes are one batch of one record of one byte).
MaxRecords == 3

MaxRecLen == 2

MaxCut == 9

\* Width of int in the build that runs ImportTraceFile.
IntBits == {32, 64}

ByteChoices == {7}

nil == <<>>

VARIABLES
    cfg,        \* Config: retainHours, fileSizeLimit
    x,          \* FilesTraceExporter fields
    fs,         \* the base folder on disk: dirs, segs, index, marks
    now,        \* wall-clock hour of the latest call
    nCalls,     \* number of public calls made
    last,       \* the latest public call: its input, result and file operations
    pre,        \* x and fs as they were when the latest call began
    created,    \* every segment file created, in order of creation
    lckOutput,  \* SpecConc: the goroutine that holds x.lckOutput, or NoProc
    pc,         \* SpecConc: where each goroutine is in its call
    loc,        \* SpecConc: the locals of each goroutine's call
    order,      \* SpecConc: the batches in the order their calls got the lock,
                \*   each with the folder that was current for it
    fds,        \* SpecConc: the segment files that are open
    rd          \* SpecReader: the ImportTraceFile call and its uploader

seqvars == <<nCalls, last, pre, created>>

concvars == <<lckOutput, pc, loc, order, fds>>

vars == <<cfg, x, fs, now, seqvars, concvars, rd>>

\* ------------------------------------------------------------------- helpers
Int32Inc(n) == IF n = MaxInt32 THEN (0 - MaxInt32) - 1 ELSE n + 1

Mask24(h) == h % (outputHourMask + 1)

Event(c, op, target, ok) == [c EXCEPT !.ev = Append(@, <<op, target, ok>>)]

FolderOf(path) == <<path[1]>>

RemoveFolder(d, p) ==
    [dirs  |-> d.dirs \ {p},
     segs  |-> [q \in {r \in DOMAIN d.segs : FolderOf(r) # p} |-> d.segs[q]],
     index |-> [q \in DOMAIN d.index \ {p} |-> d.index[q]],
     marks |-> d.marks \ {p}]

\* ------------------------------------------------------------------- naming
makeOutputFolderPath(outputHour) == <<Mask24(outputHour)>>

makeOutputFileName(outputSn) == IF outputSn > 65535 THEN <<4, outputSn>> ELSE <<2, outputSn>>

\* A call in progress: the exporter's fields x, the disk fs, the hour t that
\* time.Now() gives, the failing file operations io, the file operations done
\* so far ev, and err, the error of the function that returned last (nil: none).
Call(xx, d, t, io) == [x |-> xx, fs |-> d, t |-> t, io |-> io, ev |-> <<>>, err |-> nil]

Return(c, err) == [c EXCEPT !.err = err]

\* ----------------------------------------------------------- exporter.go
writeTimestampFile(c) ==
    LET p  == c.x.outputFolderPath
        ok == ("mark" \notin c.io) /\ (p \in c.fs.dirs)
        c1 == Event(c, "WriteFile", <<p[1], "_t">>, ok)
    IN  IF ok
        THEN Return([c1 EXCEPT !.fs.marks = @ \cup {p}], nil)
        ELSE Return(c1, <<"cannot write timestamp file">>)

\* Mutation of appendIndexRecord: the record is reported as appended and is
\* not in the file.
appendIndexRecord_lost(c) == Return(Event(c, "Append", c.x.indexFilePath, TRUE), nil)

appendIndexRecord(c) ==
    LET p  == FolderOf(c.x.indexFilePath)
        ok == ("index" \notin c.io) /\ (p \in c.fs.dirs)
        c1 == Event(c, "Append", c.x.indexFilePath, ok)
        old == IF p \in DOMAIN c.fs.index THEN c.fs.index[p] ELSE <<>>
    IN  IF ok
        THEN Return([c1 EXCEPT !.fs.index = (p :> Append(old, c.x.outputFileName)) @@ @], nil)
        ELSE Return(c1, <<"cannot append index record">>)


\* Mutation of closeOutputFolder: the marker file is never written.
closeOutputFolder_noMarker(c) == Return(c, nil)

closeOutputFolder(c) ==
    IF c.x.outputFolderPath = nil
    THEN Return(c, nil)
    ELSE writeTimestampFile(c)


\* Mutation of closeOutputFile: the serial is not advanced (line 128 missing).
closeOutputFile_noIncrement(c) ==
    IF c.x.outputFp = nil
    THEN Return(c, nil)
    ELSE LET ok0  == "close" \notin c.io
             err0 == IF ok0 THEN nil ELSE <<"cannot close file">>
             c1   == Event(c, "Close", c.x.outputFp, ok0)
             c2   == [c1 EXCEPT !.x.outputFp = nil, !.x.currentSize = 0]
             c3   == appendIndexRecord(c2)
         IN  Return(c3, err0 \o c3.err)

closeOutputFile(c) ==
    IF c.x.outputFp = nil
    THEN Return(c, nil)
    ELSE LET ok0  == "close" \notin c.io
             err0 == IF ok0 THEN nil ELSE <<"cannot close file">>
             c1   == Event(c, "Close", c.x.outputFp, ok0)
             c2   == [c1 EXCEPT !.x.outputFp = nil, !.x.currentSize = 0]
             c3   == appendIndexRecord(c2)
             c4   == [c3 EXCEPT !.x.outputSn = Int32Inc(@)]
         IN  Return(c4, err0 \o c3.err)

RECURSIVE purgeLoop(_, _, _)
purgeLoop(c, expiredHourBase, purgeHourOffset) ==
    LET expiredHour == expiredHourBase - purgeHourOffset
        p   == makeOutputFolderPath(expiredHour)
        \* removing a folder that does not exist changes nothing and succeeds
        ok  == (p \notin c.fs.dirs)
                 \/ ((IF purgeHourOffset = 0 THEN "rm0" ELSE "rm1") \notin c.io)
        c1  == Event(c, "RemoveAll", p, ok)
        c2  == IF ok THEN [c1 EXCEPT !.fs = RemoveFolder(@, p)] ELSE c1
        c3  == purgeLoop(c2, expiredHourBase, purgeHourOffset + 1)
    IN  IF purgeHourOffset >= purgeRangeCount \/ expiredHour < 0
        THEN Return(c, nil)
        ELSE Return(c3, (IF ok THEN nil ELSE <<"cannot remove expired output folder">>) \o c3.err)

\* Mutation of purgeRecentExpiredOutputFolders: the window begins one hour
\* late (line 147 without the - 1).
purgeRecentExpiredOutputFolders_offByOne(c) ==
    IF cfg.retainHours < 1
    THEN Return(c, nil)
    ELSE purgeLoop(c, c.t - cfg.retainHours, 0)

purgeRecentExpiredOutputFolders(c) ==
    IF cfg.retainHours < 1
    THEN Return(c, nil)
    ELSE purgeLoop(c, (c.t - cfg.retainHours) - 1, 0)

\* Mutation of prepareOutputFolder: outputHour is set before MkdirAll is tried.
prepareOutputFolder_hourFirst(c, outputHour) ==
    LET p  == makeOutputFolderPath(outputHour)
        ok == "mkdir" \notin c.io
        c1 == Event(c, "MkdirAll", p, ok)
    IN  IF ~ok
        THEN Return([c1 EXCEPT !.x.outputHour = outputHour], <<"cannot create output folder">>)
        ELSE Return([c1 EXCEPT !.fs.dirs = @ \cup {p},
                               !.x.outputFolderPath = p,
                               !.x.indexFilePath = <<p[1], "_index">>,
                               !.x.outputHour = outputHour,
                               !.x.outputSn = 0], nil)

prepareOutputFolder(c, outputHour) ==
    LET p  == makeOutputFolderPath(outputHour)
        ok == "mkdir" \notin c.io
        c1 == Event(c, "MkdirAll", p, ok)
    IN  IF ~ok
        THEN Return(c1, <<"cannot create output folder">>)
        ELSE Return([c1 EXCEPT !.fs.dirs = @ \cup {p},
                               !.x.outputFolderPath = p,
                               !.x.indexFilePath = <<p[1], "_index">>,
                               !.x.outputHour = outputHour,
                               !.x.outputSn = 0], nil)


\* Mutation of openOutputFile: the serial boundary is not checked.
openOutputFile_noBoundary(c) ==
    LET outputFileName == makeOutputFileName(c.x.outputSn)
        outputFilePath == c.x.outputFolderPath \o <<outputFileName>>
        ok == ("open" \notin c.io) /\ (c.x.outputFolderPath \in c.fs.dirs)
        c1 == Event(c, "OpenFile", outputFilePath, ok)
    IN  IF ~ok
        THEN Return(c1, <<"cannot create output file">>)
        ELSE Return([c1 EXCEPT !.fs.segs = (outputFilePath :> <<>>) @@ @,
                               !.x.outputFileName = outputFileName,
                               !.x.outputFp = outputFilePath], nil)

\* prepareOutputFp, lines 232-247: create the segment file of the serial.
openOutputFile(c) ==
    IF c.x.outputSn > outputSnBoundary
    THEN Return(c, nil)
    ELSE LET outputFileName == makeOutputFileName(c.x.outputSn)
             outputFilePath == c.x.outputFolderPath \o <<outputFileName>>
             ok == ("open" \notin c.io) /\ (c.x.outputFolderPath \in c.fs.dirs)
             c1 == Event(c, "OpenFile", outputFilePath, ok)
         IN  IF ~ok
             THEN Return(c1, <<"cannot create output file">>)
             ELSE Return([c1 EXCEPT !.fs.segs = (outputFilePath :> <<>>) @@ @,
                                    !.x.outputFileName = outputFileName,
                                    !.x.outputFp = outputFilePath], nil)


\* Mutation of keepOutputFile: the size limit is not looked at.
keepOutputFile_noLimit(c, recordSize) == c.x.currentSize # 0

\* prepareOutputFp, line 201: the batch goes to the file that is open.
keepOutputFile(c, recordSize) ==
    (c.x.currentSize # 0) /\ ((c.x.currentSize + recordSize) <= cfg.fileSizeLimit)

prepareOutputFp(c, recordSize) ==
    LET outputHour == Mask24(c.t)
    IN  IF outputHour = c.x.outputHour
        THEN IF keepOutputFile(c, recordSize)
             THEN Return(c, nil)
             ELSE LET c1 == closeOutputFile(c)
                      c2 == IF c1.x.outputFolderPath = nil
                            THEN prepareOutputFolder(c1, outputHour)
                            ELSE Return(c1, nil)
                  IN  IF c1.err # nil THEN c1
                      ELSE IF c2.err # nil THEN c2
                      ELSE openOutputFile(c2)
        ELSE LET c1 == closeOutputFile(c)
                 c2 == closeOutputFolder(c1)
                 c3 == prepareOutputFolder(c2, outputHour)
                 c4 == purgeRecentExpiredOutputFolders(c3)
             IN  IF c1.err \o c2.err # nil THEN Return(c2, c1.err \o c2.err)
                 ELSE IF c3.err # nil THEN c3
                 ELSE openOutputFile(c4)

\* The buffer of a batch is kept as [id, size, full]: the call that wrote it,
\* its encoded length, and whether all of it reached the file.
fpWrite(c, id, size) ==
    LET fp   == c.x.outputFp
        res  == IF "write" \in c.io THEN "fail"
                ELSE IF "short" \in c.io THEN "short" ELSE "ok"
        c1   == Event(c, "Write", fp, res = "ok")
        rec  == [id |-> id, size |-> size, full |-> (res = "ok")]
    IN  IF res = "fail" \/ fp \notin DOMAIN c.fs.segs
        THEN Return(c1, IF res = "ok" THEN nil ELSE <<"cannot write spans">>)
        ELSE Return([c1 EXCEPT !.fs.segs[fp] = Append(@, rec)],
                    IF res = "ok" THEN nil ELSE <<"cannot write spans">>)


\* Mutation of exportLocked: the error of Write is not returned.
exportLocked_dropWriteError(c, id, size) ==
    LET c1 == prepareOutputFp(c, size)
        c2 == fpWrite(c1, id, size)
    IN  IF c1.err # nil THEN c1
        ELSE IF c1.x.outputFp = nil THEN Return(c1, nil)
        ELSE Return([c2 EXCEPT !.x.currentSize = @ + size], nil)

\* ExportSpans between Lock and Unlock (lines 285-296).
exportLocked(c, id, size) ==
    LET c1 == prepareOutputFp(c, size)
        c2 == fpWrite(c1, id, size)
    IN  IF c1.err # nil THEN c1
        ELSE IF c1.x.outputFp = nil THEN Return(c1, nil)
        ELSE Return([c2 EXCEPT !.x.currentSize = @ + size], c2.err)

ExportSpans(c, id, size) ==
    IF size = 0 THEN Return(c, nil)
    ELSE IF "marshal" \in c.io THEN Return(c, <<"cannot marshal span">>)
    ELSE exportLocked(c, id, size)


\* Mutation of Shutdown: the folder is not retired when closing the file failed.
Shutdown_stopAtFirstError(c) ==
    LET c1 == closeOutputFile(c)
        c2 == closeOutputFolder(c1)
    IN  IF c1.err # nil THEN c1 ELSE Return(c2, c1.err \o c2.err)

Shutdown(c) ==
    LET c1 == closeOutputFile(c)
        c2 == closeOutputFolder(c1)
    IN  Return(c2, c1.err \o c2.err)

\* ----------------------------------------------------- Spec: calls in turn
NewFilesTraceExporter ==
    [outputFolderPath |-> nil, indexFilePath |-> nil, outputHour |-> 0, outputSn |-> 0,
     outputFileName |-> nil, outputFp |-> nil, currentSize |-> 0]

EmptyDisk == [dirs |-> {}, segs |-> <<>>, index |-> <<>>, marks |-> {}]

\* The exporter after sn files were closed in the bucket of hour 0 and the
\* creation of the next one failed; the earlier files are not kept in fs.
AfterSerials(sn) ==
    [outputFolderPath |-> makeOutputFolderPath(0), indexFilePath |-> <<0, "_index">>,
     outputHour |-> 0, outputSn |-> sn, outputFileName |-> makeOutputFileName(sn - 1),
     outputFp |-> nil, currentSize |-> 0]

\* No ImportTraceFile call has begun.
NoReplay ==
    [pc |-> "idle", file |-> <<>>, pos |-> 0, traceRecords |-> <<>>, err |-> nil,
     uploads |-> <<>>, src |-> <<>>, cut |-> 0, nBatches |-> 0,
     flip |-> 0, intBits |-> 64]

\* seen: the exporter's fields as prepareOutputFp left them for this call.
NoLocals == [id |-> nil, size |-> 0, calls |-> 0, seen |-> nil, err |-> nil]

\* No goroutine is in a call.
ConcIdle ==
    /\ lckOutput = NoProc
    /\ pc = [p \in Procs |-> "idle"]
    /\ loc = [p \in Procs |-> NoLocals]
    /\ order = <<>>
    /\ fds = {}

NoCall == [op |-> "none", id |-> 0, size |-> 0, hour |-> 0, err |-> nil, ev |-> <<>>]

Opened(ev) == SelectSeq(ev, LAMBDA e : e[1] = "OpenFile" /\ e[3])

Paths(ev) == [i \in 1..Len(ev) |-> ev[i][2]]

Init ==
    /\ cfg \in [retainHours : RetainChoices, fileSizeLimit : {MinFileSizeLimit}]
    /\ \E sn \in StartSerials :
         /\ (sn # 0) => (cfg.retainHours = 1)
         /\ x = IF sn = 0 THEN NewFilesTraceExporter ELSE AfterSerials(sn)
         /\ fs = IF sn = 0 THEN EmptyDisk
                 ELSE [EmptyDisk EXCEPT !.dirs = {makeOutputFolderPath(0)}]
    /\ now = 0
    /\ nCalls = 0
    /\ last = NoCall
    /\ pre = [x |-> x, fs |-> fs]
    /\ created = <<>>
    /\ ConcIdle
    /\ rd = NoReplay

Finish(c, op, size) ==
    /\ x' = c.x
    /\ fs' = c.fs
    /\ now' = c.t
    /\ nCalls' = nCalls + 1
    /\ last' = [op |-> op, id |-> nCalls + 1, size |-> size, hour |-> c.t,
                err |-> c.err, ev |-> c.ev]
    /\ pre' = [x |-> x, fs |-> fs]
    /\ created' = created \o Paths(Opened(c.ev))
    /\ UNCHANGED <<rd, cfg, concvars>>

\* The faults that can strike the file operations ev of a call.  A failure
\* only cuts a call short, so the operations of the call without failures
\* are all that can fail.
FaultsOf(e) ==
    CASE e[1] = "Close"     -> {"close"}
      [] e[1] = "Append"    -> {"index"}
      [] e[1] = "WriteFile" -> {"mark"}
      [] e[1] = "MkdirAll"  -> {"mkdir"}
      [] e[1] = "RemoveAll" -> {"rm0", "rm1"}
      [] e[1] = "OpenFile"  -> {"open"}
      [] e[1] = "Write"     -> {"write", "short"}

Faults(ev) ==
    {F \in FaultSets : F \subseteq UNION {FaultsOf(ev[i]) : i \in 1..Len(ev)}}

\* time.Now() is read by prepareOutputFp only (line 199): a call that does
\* not get there leaves the clock where the latest reading saw it.
Export ==
    /\ nCalls < MaxCalls
    /\ \E size \in BatchSizes :
         \/ /\ size > 0
            /\ \E t \in now..MaxHour :
                 \E io \in Faults(ExportSpans(Call(x, fs, t, {}), nCalls + 1, size).ev) :
                    Finish(ExportSpans(Call(x, fs, t, io), nCalls + 1, size), "Export", size)
         \/ \E io \in {{}, {"marshal"}} :
               /\ (size = 0) => (io = {})
               /\ Finish(ExportSpans(Call(x, fs, now, io), nCalls + 1, size), "Export", size)

Close ==
    /\ nCalls < MaxCalls
    /\ \E io \in Faults(Shutdown(Call(x, fs, now, {})).ev) :
         Finish(Shutdown(Call(x, fs, now, io)), "Shutdown", 0)

Next == Export \/ Close

Spec == Init /\ [][Next]_vars

\* ------------------------------- SpecEnv: the Writer and its surroundings
\* The program is started again: NewFilesTraceExporter gives a Writer with
\* zero fields on the base folder as the Writer before left it.
Restart ==
    /\ last.op # "New"
    /\ x' = NewFilesTraceExporter
    /\ last' = [NoCall EXCEPT !.op = "New", !.id = nCalls, !.hour = now]
    /\ pre' = [x |-> x, fs |-> fs]
    /\ UNCHANGED <<rd, cfg, fs, now, nCalls, created, concvars>>

\* Something other than the Writer removes the folder the Writer writes to.
LoseFolder ==
    /\ x.outputFolderPath \in fs.dirs
    /\ fs' = RemoveFolder(fs, x.outputFolderPath)
    /\ last' = [NoCall EXCEPT !.op = "Lost", !.id = nCalls, !.hour = now]
    /\ pre' = [x |-> x, fs |-> fs]
    /\ UNCHANGED <<rd, cfg, x, now, nCalls, created, concvars>>

NextEnv == Export \/ Close \/ Restart \/ LoseFolder

SpecEnv == Init /\ [][NextEnv]_vars

\* ------------------------------------- SpecConc: goroutines interleaved
\* A step of a goroutine is one access of the exporter's fields or one file
\* operation; prepareOutputFp is taken as one step of the lock holder.  No
\* file operation fails here except on a file that is closed already.
InitConc ==
    /\ cfg = [retainHours |-> 1, fileSizeLimit |-> MinFileSizeLimit]
    /\ x = NewFilesTraceExporter
    /\ fs = EmptyDisk
    /\ now = 0
    /\ nCalls = 0
    /\ last = NoCall
    /\ pre = [x |-> x, fs |-> fs]
    /\ created = <<>>
    /\ ConcIdle
    /\ rd = NoReplay

Goto(p, label) == pc' = [pc EXCEPT ![p] = label]

ClosedPaths(ev) == {ev[i][2] : i \in {j \in 1..Len(ev) : ev[j][1] = "Close"}}

OpenedPaths(ev) == {ev[i][2] : i \in {j \in 1..Len(ev) : ev[j][1] = "OpenFile" /\ ev[j][3]}}

\* Close, and Write, fail on a file that is closed or on a nil *os.File.
StaleFaults(fp) == IF fp = nil \/ fp \notin fds THEN {"close", "write"} ELSE {}

\* Mutation of LockFree: Lock does not wait for the holder.
LockFree_noWait == TRUE

\* x.lckOutput.Lock() returns once no goroutine holds the mutex (line 283).
LockFree == lckOutput = NoProc

\* ExportSpans, lines 274-282: the batch is encoded before the lock is asked.
ExCall(p) ==
    /\ pc[p] = "idle"
    /\ loc[p].calls < MaxCallsEach
    /\ \E size \in BatchSizes \ {0} :
         loc' = [loc EXCEPT ![p] = [id |-> <<p, loc[p].calls + 1>>, size |-> size,
                                    calls |-> loc[p].calls + 1, seen |-> nil, err |-> nil]]
    /\ Goto(p, "lock")
    /\ UNCHANGED <<rd, cfg, x, fs, now, seqvars, lckOutput, order, fds>>

\* line 283
ExLock(p) ==
    /\ pc[p] = "lock"
    /\ LockFree
    /\ lckOutput' = p
    /\ order' = Append(order, [id |-> loc[p].id, folder |-> nil])
    /\ Goto(p, "prepare")
    /\ UNCHANGED <<rd, cfg, x, fs, now, seqvars, loc, fds>>

\* lines 285-287
ExPrepare(p) ==
    /\ pc[p] = "prepare"
    /\ LET c == prepareOutputFp(Call(x, fs, now, StaleFaults(x.outputFp) \ {"write"}),
                                loc[p].size)
       IN  /\ x' = c.x
           /\ fs' = c.fs
           /\ fds' = (fds \ ClosedPaths(c.ev)) \cup OpenedPaths(c.ev)
           /\ loc' = [loc EXCEPT ![p].seen = c.x, ![p].err = c.err]
           /\ order' = [order EXCEPT ![Len(order)].folder = c.x.outputFolderPath]
           /\ Goto(p, IF c.err # nil THEN "unlock" ELSE "check")
    /\ UNCHANGED <<rd, cfg, now, seqvars, lckOutput>>

\* lines 288-290
ExCheck(p) ==
    /\ pc[p] = "check"
    /\ Goto(p, IF x.outputFp = nil THEN "unlock" ELSE "write")
    /\ UNCHANGED <<rd, cfg, x, fs, now, seqvars, lckOutput, loc, order, fds>>

\* lines 291-293
ExWrite(p) ==
    /\ pc[p] = "write"
    /\ LET c == fpWrite(Call(x, fs, now, StaleFaults(x.outputFp) \ {"close"}),
                        loc[p].id, loc[p].size)
       IN  /\ fs' = c.fs
           /\ loc' = [loc EXCEPT ![p].err = c.err]
    /\ Goto(p, "update")
    /\ UNCHANGED <<rd, cfg, x, now, seqvars, lckOutput, order, fds>>

\* lines 294-295
ExUpdate(p) ==
    /\ pc[p] = "update"
    /\ x' = [x EXCEPT !.currentSize = @ + loc[p].size]
    /\ Goto(p, "unlock")
    /\ UNCHANGED <<rd, cfg, fs, now, seqvars, lckOutput, loc, order, fds>>

\* line 284: the deferred Unlock, at the return
ExUnlock(p) ==
    /\ pc[p] = "unlock"
    /\ lckOutput' = NoProc
    /\ Goto(p, "idle")
    /\ UNCHANGED <<rd, cfg, x, fs, now, seqvars, loc, order, fds>>

\* Shutdown, line 301, and closeOutputFile, lines 116-122: no lock is taken.
SdClose ==
    /\ pc["sd"] = "idle"
    /\ loc["sd"].calls < MaxShutdowns
    /\ loc' = [loc EXCEPT !["sd"].calls = @ + 1,
                          !["sd"].err = IF x.outputFp # nil /\ x.outputFp \notin fds
                                        THEN <<"cannot close file">> ELSE nil]
    /\ fds' = fds \ {x.outputFp}
    /\ Goto("sd", IF x.outputFp = nil THEN "folder" ELSE "clear")
    /\ UNCHANGED <<rd, cfg, x, fs, now, seqvars, lckOutput, order>>

\* closeOutputFile, lines 123-124
SdClear ==
    /\ pc["sd"] = "clear"
    /\ x' = [x EXCEPT !.outputFp = nil, !.currentSize = 0]
    /\ Goto("sd", "index")
    /\ UNCHANGED <<rd, cfg, fs, now, seqvars, lckOutput, loc, order, fds>>

\* closeOutputFile, lines 125-127
SdIndex ==
    /\ pc["sd"] = "index"
    /\ LET c == appendIndexRecord(Call(x, fs, now, {}))
       IN  /\ fs' = c.fs
           /\ loc' = [loc EXCEPT !["sd"].err = @ \o c.err]
    /\ Goto("sd", "serial")
    /\ UNCHANGED <<rd, cfg, x, now, seqvars, lckOutput, order, fds>>

\* closeOutputFile, line 128
SdSerial ==
    /\ pc["sd"] = "serial"
    /\ x' = [x EXCEPT !.outputSn = Int32Inc(@)]
    /\ Goto("sd", "folder")
    /\ UNCHANGED <<rd, cfg, fs, now, seqvars, lckOutput, loc, order, fds>>

\* Shutdown, lines 304-310
SdFolder ==
    /\ pc["sd"] = "folder"
    /\ LET c == closeOutputFolder(Call(x, fs, now, {}))
       IN  /\ fs' = c.fs
           /\ loc' = [loc EXCEPT !["sd"].err = @ \o c.err]
    /\ Goto("sd", "idle")
    /\ UNCHANGED <<rd, cfg, x, now, seqvars, lckOutput, order, fds>>

\* The wall clock reaches the next hour.
Tick ==
    /\ now < MaxTicks
    /\ now' = now + 1
    /\ UNCHANGED <<rd, cfg, x, fs, seqvars, concvars>>

ExportStep(p) ==
    \/ ExCall(p) \/ ExLock(p) \/ ExPrepare(p) \/ ExCheck(p)
    \/ ExWrite(p) \/ ExUpdate(p) \/ ExUnlock(p)

ShutdownStep == SdClose \/ SdClear \/ SdIndex \/ SdSerial \/ SdFolder

NextExports == Tick \/ \E p \in Exporters : ExportStep(p)

NextConc == NextExports \/ ShutdownStep

\* Concurrent ExportSpans calls only.
SpecExports == InitConc /\ [][NextExports]_vars

\* Concurrent ExportSpans and Shutdown calls.
SpecConc == InitConc /\ [][NextConc]_vars

\* ------------------------------------------------- properties of Spec
\* Each property looks at the latest call: pre.x and pre.fs are the exporter
\* and the disk when it began, x and fs when it returned.
Exported == last.op = "Export"

Rec(id, size) == [id |-> id, size |-> size, full |-> TRUE]

\* The segment files of disk d that hold the complete batch of call id.
StoredIn(d, id) ==
    {p \in DOMAIN d.segs : \E i \in 1..Len(d.segs[p]) :
        d.segs[p][i].id = id /\ d.segs[p][i].full}

Copies(f, id) == Cardinality({i \in 1..Len(f) : f[i].id = id})

EvOps(ev) == [i \in 1..Len(ev) |-> ev[i][1]]

Only(ev, ops) == EvOps(SelectSeq(ev, LAMBDA e : e[1] \in ops))

Failed(ev) == SelectSeq(ev, LAMBDA e : ~e[3])

RECURSIVE FileTotal(_)
FileTotal(f) == IF f = <<>> THEN 0 ELSE f[1].size + FileTotal(Tail(f))

MarshalFailed(call) == call.err = <<"cannot marshal span">>

SerialOf(path) == path[2][2]

\* The rule of one Export that stores its batch while the bucket stays.
C1_Rule ==
    (/\ Exported /\ last.size > 0 /\ last.err = nil
     /\ Mask24(last.hour) = pre.x.outputHour
     /\ x.outputSn <= outputSnBoundary)
    => LET S   == last.size
           rec == Rec(last.id, S)
           old == pre.x
       IN  IF old.currentSize > 0 /\ old.currentSize + S <= cfg.fileSizeLimit
           THEN /\ old.outputFp # nil
                /\ x.outputFp = old.outputFp
                /\ x.outputSn = old.outputSn
                /\ fs.segs = [pre.fs.segs EXCEPT ![old.outputFp] = Append(@, rec)]
                /\ Only(last.ev, {"Close", "OpenFile"}) = <<>>
           ELSE /\ x.outputSn = IF old.outputFp # nil THEN old.outputSn + 1 ELSE old.outputSn
                /\ x.outputFp = makeOutputFolderPath(last.hour)
                                    \o <<makeOutputFileName(x.outputSn)>>
                /\ x.outputFp \notin DOMAIN pre.fs.segs
                /\ fs.segs = (x.outputFp :> <<rec>>) @@ pre.fs.segs
                /\ Only(last.ev, {"Close", "OpenFile"})
                     = IF old.outputFp # nil THEN <<"Close", "OpenFile">> ELSE <<"OpenFile">>

C1_SizeBound ==
    \A p \in DOMAIN fs.segs :
        (FileTotal(fs.segs[p]) <= cfg.fileSizeLimit) \/ (Len(fs.segs[p]) = 1)

\* C1: within one hour bucket a batch of size S that is stored is appended to
\* the open file when currentSize > 0 and currentSize + S <= L; otherwise the
\* open file (if any) is closed, once, and the batch is the first batch of one
\* newly created file with the next serial.  Every segment file holds at most
\* L bytes or exactly one batch.
C1_RotationBySize == C1_Rule /\ C1_SizeBound

\* An Export has just closed a file of two batches that is within the limit
\* and put its own batch first into serial 1 of the same folder.
C1_Witness ==
    /\ Exported /\ last.err = nil
    /\ EvOps(last.ev) = <<"Close", "Append", "OpenFile", "Write">>
    /\ FolderOf(last.ev[1][2]) = FolderOf(last.ev[3][2])
    /\ x.outputSn = 1
    /\ \E p \in DOMAIN fs.segs : Len(fs.segs[p]) = 2

\* Two Export calls in a row (last and last'), both successful and with
\* batches, the second in another hour bucket than the first.
C2_Case ==
    /\ last.op = "Export" /\ last.size > 0 /\ last.err = nil
    /\ nCalls' = nCalls + 1
    /\ last'.op = "Export" /\ last'.size > 0 /\ last'.err = nil
    /\ Mask24(last'.hour) # Mask24(last.hour)

C2_Outcome ==
    /\ \E p \in StoredIn(fs', last.id) : FolderOf(p) = makeOutputFolderPath(last.hour)
    /\ (makeOutputFolderPath(last'.hour) \o <<makeOutputFileName(0)>>) \in StoredIn(fs', last'.id)
    /\ makeOutputFolderPath(last.hour) \in fs'.marks

\* C2 as stated: after two successful Exports separated by a change of the
\* hour bucket the first batch is in the first hour's folder, the second in
\* serial 0 of the second hour's folder, and the first folder holds _t.
C2_AsStated == [][C2_Case => C2_Outcome]_vars

\* The hours whose folders the purge of a rotation to hour h tries to remove.
PurgeCandidates(h) ==
    IF cfg.retainHours < 1 THEN {}
    ELSE {e \in {(h - cfg.retainHours) - 1, (h - cfg.retainHours) - 2} : e >= 0}

\* C2 amended: the same, provided the first Export stored its batch (the
\* serial was not exhausted) and the first hour is not one of the two hours
\* h2-R-1, h2-R-2 whose folders the purge of that rotation removes.
C2_RotationByHour ==
    [][(/\ C2_Case
        /\ StoredIn(fs, last.id) # {}
        /\ last.hour \notin PurgeCandidates(last'.hour)) => C2_Outcome]_vars

\* The second Export of such a pair has returned: the first folder is
\* retired, the new folder holds serial 0 with the second batch.
C2_Witness ==
    /\ Exported /\ last.size > 0 /\ last.err = nil
    /\ EvOps(last.ev) = <<"Close", "Append", "WriteFile", "MkdirAll", "OpenFile", "Write">>
    /\ StoredIn(pre.fs, last.id - 1) # {}
    /\ pre.x.outputFolderPath \in fs.marks
    /\ x.outputFp \in StoredIn(fs, last.id)
    /\ x.outputSn = 0

C3_Step ==
    /\ (nCalls > 0 /\ x.outputFolderPath = pre.x.outputFolderPath
            /\ x.outputHour = pre.x.outputHour)
        => x.outputSn = pre.x.outputSn + Len(Only(last.ev, {"Close"}))
    /\ (x.outputSn < pre.x.outputSn) => (x.outputHour # pre.x.outputHour /\ x.outputSn = 0)
    /\ (x.outputFolderPath # pre.x.outputFolderPath) => (x.outputSn = 0)

\* The serials of the files created in one folder, in order of creation.
SerialsIn(folder) ==
    LET mine == SelectSeq(created, LAMBDA p : FolderOf(p) = folder)
    IN  [i \in 1..Len(mine) |-> SerialOf(mine[i])]

C3_Created ==
    \A p \in {created[i] : i \in 1..Len(created)} :
        LET sns == SerialsIn(FolderOf(p))
        IN  /\ \A i \in 1..Len(sns) : sns[i] = sns[1] + (i - 1)
            /\ (sns[1] = 0) \/ (FolderOf(p) = makeOutputFolderPath(0) /\ sns[1] \in StartSerials)

\* C3: while the bucket is unchanged outputSn grows by one per file closed and
\* never decreases, it returns to 0 only when the bucket changes, and the
\* files created in one folder have the serials 0, 1, 2, ... in this order,
\* none used twice.
C3_SerialMonotonicity == C3_Step /\ C3_Created

C3_Witness ==
    /\ Len(created) = 3
    /\ created[1] = <<0, <<2, 0>>>>
    /\ created[2] = <<0, <<2, 1>>>>
    /\ FolderOf(created[3]) # <<0>> /\ SerialOf(created[3]) = 0

C4_Step ==
    /\ (Exported /\ x.outputSn > outputSnBoundary)
        => /\ Only(last.ev, {"OpenFile", "Write"}) = <<>>
           /\ fs.segs = pre.fs.segs
           /\ x.outputFp = nil
           /\ (Failed(last.ev) = <<>> /\ ~MarshalFailed(last)) => last.err = nil
    /\ (Exported /\ last.size > 0 /\ ~MarshalFailed(last)
            /\ pre.x.outputSn > outputSnBoundary /\ Mask24(last.hour) = pre.x.outputHour)
        => (last.err = nil /\ last.ev = <<>> /\ x = pre.x /\ fs = pre.fs)
    /\ (Exported /\ last.size > 0 /\ last.err = nil
            /\ pre.x.outputSn > outputSnBoundary /\ Mask24(last.hour) # pre.x.outputHour)
        => /\ x.outputSn = 0
           /\ x.outputFp \in StoredIn(fs, last.id)

C4_Range == (0 <= x.outputSn) /\ (x.outputSn <= outputSnBoundary + 1)

\* C4: when the serial to use is above outputSnBoundary an Export creates no
\* file, writes nothing and returns success; every later Export of the bucket
\* is dropped likewise with the state untouched; outputSn never exceeds
\* outputSnBoundary + 1; an Export of another bucket resets it to 0 and stores.
C4_SerialExhaustion == C4_Step /\ C4_Range

C4_Witness ==
    /\ Exported /\ last.size > 0 /\ last.err = nil /\ last.ev = <<>>
    /\ pre.x.outputSn = outputSnBoundary + 1
    /\ x.outputSn = outputSnBoundary + 1
    /\ StoredIn(fs, last.id) = {}

\* C5: an Export of a non-empty batch that returns success has stored the
\* complete batch, once, in exactly one segment file, unless the serial of
\* the bucket is above outputSnBoundary.
C5_NoSilentDrop ==
    (Exported /\ last.size > 0 /\ last.err = nil /\ x.outputSn <= outputSnBoundary)
    => /\ Cardinality(StoredIn(fs, last.id)) = 1
       /\ \A p \in DOMAIN fs.segs : Copies(fs.segs[p], last.id) <= 1
       /\ x.outputFp \in StoredIn(fs, last.id)
       /\ StoredIn(pre.fs, last.id) = {}

C5_Witness ==
    /\ Exported /\ last.size > 0 /\ last.err = nil
    /\ nCalls = 3
    /\ x.outputFp \in StoredIn(fs, last.id)
    /\ Len(fs.segs[x.outputFp]) = 2

C8_Step ==
    /\ (last.op = "Shutdown" /\ pre.x.outputFp # nil)
        => LET ev == last.ev
               folder == pre.x.outputFolderPath
           IN  /\ x.outputFp = nil
               /\ EvOps(ev) = <<"Close", "Append", "WriteFile">>
               /\ ev[1][2] = pre.x.outputFp
               /\ ev[2][2] = <<folder[1], "_index">>
               /\ ev[3][2] = <<folder[1], "_t">>
               /\ ev[2][3] => (/\ folder \in DOMAIN fs.index
                               /\ fs.index[folder] =
                                    Append(IF folder \in DOMAIN pre.fs.index
                                           THEN pre.fs.index[folder] ELSE <<>>,
                                           pre.x.outputFileName))
               /\ ev[3][3] => (folder \in fs.marks)
               /\ Len(last.err) = Len(Failed(ev))
               /\ fs.segs = pre.fs.segs
    /\ (last.op = "Shutdown" /\ pre.x.outputFolderPath = nil)
        => (fs = pre.fs /\ x = pre.x /\ last.err = nil /\ last.ev = <<>>)

\* C8: Shutdown with an open file closes it, appends its index record and
\* writes _t of the open folder, the marker also when the close or the index
\* append failed, and returns one sub-error per failed operation; Shutdown of
\* a Writer that never opened a folder changes nothing and returns success,
\* however often it is called.
C8_ShutdownContract == C8_Step

\* A Shutdown whose Close failed has still appended the index record and
\* tried the marker, which failed too: two sub-errors.
C8_Witness ==
    /\ last.op = "Shutdown"
    /\ EvOps(last.ev) = <<"Close", "Append", "WriteFile">>
    /\ ~last.ev[1][3] /\ last.ev[2][3] /\ ~last.ev[3][3]
    /\ Len(last.err) = 2

Removals(ev) == SelectSeq(ev, LAMBDA e : e[1] = "RemoveAll")

Targets(ev) == {ev[i][2] : i \in 1..Len(ev)}

RetiredBefore(i) ==
    pre.fs.marks
        \cup {<<last.ev[j][2][1]>> : j \in {k \in 1..(i - 1) :
                                             last.ev[k][1] = "WriteFile" /\ last.ev[k][3]}}

\* C14: no call creates, truncates or appends to a segment file in a folder
\* that holds the marker _t.
C14_RetiredNotReopened ==
    \A i \in 1..Len(last.ev) :
        (last.ev[i][1] \in {"OpenFile", "Write"} /\ last.ev[i][3])
            => (FolderOf(last.ev[i][2]) \notin RetiredBefore(i))

\* The file operations of the latest call are those of the same call with
\* no failing operation: nothing failed but for the state the call found.
NoFault ==
    /\ ~MarshalFailed(last)
    /\ last.ev = ExportSpans(Call(pre.x, pre.fs, last.hour, {}), last.id, last.size).ev

\* The segment files that were closed: their names are in _index.
Indexed(d) ==
    {p \in DOMAIN d.segs :
        /\ FolderOf(p) \in DOMAIN d.index
        /\ \E i \in 1..Len(d.index[FolderOf(p)]) : d.index[FolderOf(p)][i] = p[2]}

\* C15: a segment file that was closed keeps its content through every later
\* call, of the Writer that closed it and of a Writer constructed afterwards.
C15_ClosedImmutable ==
    \A p \in Indexed(pre.fs) :
        (p \in DOMAIN fs.segs) => (fs.segs[p] = pre.fs.segs[p])

\* C17: an Export that must open the next file of the same hour while the
\* folder of that hour is gone from the disk, and in which no file operation
\* fails for another reason, creates the folder again, opens the file of the
\* next serial in it, stores its batch there and returns success.
C17_LostFolderRecreated ==
    (/\ Exported /\ last.size > 0 /\ NoFault
     /\ Mask24(last.hour) = pre.x.outputHour
     /\ pre.x.outputFolderPath # nil
     /\ pre.x.outputFolderPath \notin pre.fs.dirs
     /\ x.outputSn <= outputSnBoundary)
    => /\ last.err = nil
       /\ pre.x.outputFolderPath \in fs.dirs
       /\ x.outputFp = pre.x.outputFolderPath \o <<makeOutputFileName(x.outputSn)>>
       /\ x.outputFp \in StoredIn(fs, last.id)

IndexOf(d, folder) == IF folder \in DOMAIN d.index THEN d.index[folder] ELSE <<>>

\* Before a file is created, the file that was open when the call began has
\* been closed and its name appended to the _index beside it.
C16_CloseBeforeOpen ==
    \A j \in 1..Len(last.ev) :
        (last.ev[j][1] = "OpenFile" /\ pre.x.outputFp # nil)
            => \E i, k \in 1..(j - 1) :
                  /\ i < k
                  /\ last.ev[i] = <<"Close", pre.x.outputFp, TRUE>>
                  /\ last.ev[k] = <<"Append", <<pre.x.outputFp[1], "_index">>, TRUE>>

C16_OneFilePerBatch ==
    \A p, q \in DOMAIN fs.segs :
        \A i \in 1..Len(fs.segs[p]), j \in 1..Len(fs.segs[q]) :
            (fs.segs[p][i].id = fs.segs[q][j].id) => (p = q /\ i = j)

\* A call that appends to an _index appends the name of the file it closes,
\* once; a call that does not leaves every _index as it was.
C16_IndexStep ==
    LET ap == SelectSeq(last.ev, LAMBDA e : e[1] = "Append" /\ e[3])
    IN  /\ Len(ap) <= 1
        /\ \A folder \in fs.dirs :
              IndexOf(fs, folder)
                = IF ap # <<>> /\ FolderOf(ap[1][2]) = folder
                  THEN Append(IndexOf(pre.fs, folder), pre.x.outputFileName)
                  ELSE IndexOf(pre.fs, folder)
        /\ (ap # <<>>) => (pre.x.outputFp # nil /\ pre.x.outputFp[2] = pre.x.outputFileName
                              /\ FolderOf(ap[1][2]) = FolderOf(pre.x.outputFp))

\* The lines of an _index name closed files of its folder, by rising serial.
C16_IndexOrder ==
    \A folder \in DOMAIN fs.index :
        LET ix == fs.index[folder]
        IN  /\ \A i \in 1..(Len(ix) - 1) : ix[i][2] < ix[i + 1][2]
            /\ \A i \in 1..Len(ix) : <<folder[1], ix[i]>> # x.outputFp

\* Every segment file that is not open has its line in _index.
C16_IndexComplete ==
    \A folder \in fs.dirs :
        {IndexOf(fs, folder)[i] : i \in 1..Len(IndexOf(fs, folder))}
            = {p[2] : p \in {q \in DOMAIN fs.segs : FolderOf(q) = folder /\ q # x.outputFp}}

C18_RepairAfterFailure ==
    (Exported /\ last.size > 0 /\ NoFault /\ x.outputSn <= outputSnBoundary)
    => /\ last.err = nil
       /\ x.outputFp \in StoredIn(fs, last.id)
       /\ FolderOf(x.outputFp) = makeOutputFolderPath(last.hour)
       /\ LET f == fs.segs[x.outputFp] IN f[Len(f)] = Rec(last.id, last.size)

\* The first call of a new Writer was an Export that created the folder of
\* hour 1 and failed to create serial 0 in it (no other call leaves a folder
\* with no file and no marker); the second call, an Export in which nothing
\* fails, has created serial 0 there and stored its batch.
C18_Witness ==
    /\ nCalls = 2
    /\ pre.x.outputFolderPath = makeOutputFolderPath(1) /\ pre.x.outputSn = 0
    /\ pre.x.outputFp = nil
    /\ pre.fs.dirs = {makeOutputFolderPath(1)} /\ pre.fs.segs = <<>> /\ pre.fs.marks = {}
    /\ Exported /\ last.size > 0 /\ NoFault /\ last.err = nil /\ last.hour = 1
    /\ x.outputFp = <<1, makeOutputFileName(0)>>
    /\ x.outputFp \in StoredIn(fs, last.id)

\* C19: between calls currentSize is 0 when no file is open, and is the
\* number of bytes written to the open file otherwise, after an Export whose
\* Write failed too; it is 0 exactly when no file is open or nothing was
\* written to the open file.
C19_SizeAccounting ==
    /\ (x.outputFp = nil) => (x.currentSize = 0)
    /\ (x.outputFp # nil)
        => /\ \A i \in 1..Len(fs.segs[x.outputFp]) : fs.segs[x.outputFp][i].full
           /\ x.currentSize = FileTotal(fs.segs[x.outputFp])

\* C20: a frame that is not complete is the end of its file: no batch is
\* appended behind it.
C20_WellFramed ==
    \A p \in DOMAIN fs.segs :
        \A i \in 1..Len(fs.segs[p]) : (~fs.segs[p][i].full) => (i = Len(fs.segs[p]))

\* ---------------------------------------------------------------- SpecReader
\* binary.LittleEndian
PutUint32(v) ==
    <<v % 256, (v \div 256) % 256, (v \div 65536) % 256, (v \div 16777216) % 256>>

Uint32_bigEndian(b) == b[4] + 256 * b[3] + 65536 * b[2] + 16777216 * b[1]

Uint32(b) == b[1] + 256 * b[2] + 65536 * b[3] + 16777216 * b[4]

\* int(binary.LittleEndian.Uint32(b)) in a build whose int has rd.intBits
\* bits.  With 32 bits a value of 2^31 or more wraps to a negative int.  With
\* 64 bits it stays as it is: such a value is above every length and offset of
\* the model, and is kept as MaxInt32, the largest number that can be written
\* here (the tests made on it, < 0, = 0, > 0 and "are that many bytes left",
\* come out the same).
ToInt(b) ==
    IF b[4] < 128 THEN Uint32(b)
    ELSE IF rd.intBits = 32 THEN (Uint32([b EXCEPT ![4] = @ - 128]) - MaxInt32) - 1
    ELSE MaxInt32

RECURSIVE appendSpans(_, _)
appendSpans(buf, protoSpans) ==
    IF protoSpans = <<>> THEN buf
    ELSE LET pbSpan == Head(protoSpans)
         IN  appendSpans(buf \o PutUint32(Len(pbSpan)) \o pbSpan, Tail(protoSpans))

\* protoSpans: the marshalled bytes of each span record of the batch
marshalSpans(protoSpans) ==
    IF Len(protoSpans) = 0 THEN <<>>
    ELSE appendSpans(PutUint32(Len(protoSpans)), protoSpans)

\* Mutation of ReadFull: a read that gets a part of the bytes reports EOF.
ReadFull_eofOnly(f, pos, n) ==
    IF n <= Len(f) - pos
    THEN [err |-> nil, buf |-> SubSeq(f, pos + 1, pos + n), pos |-> pos + n]
    ELSE [err |-> <<"EOF">>, buf |-> <<>>, pos |-> Len(f)]

\* io.ReadFull on the file from offset pos
ReadFull(f, pos, n) ==
    IF n <= Len(f) - pos
    THEN [err |-> nil, buf |-> SubSeq(f, pos + 1, pos + n), pos |-> pos + n]
    ELSE [err |-> IF pos >= Len(f) THEN <<"EOF">> ELSE <<"unexpected EOF">>,
          buf |-> <<>>, pos |-> Len(f)]

\* The loop over the records of one batch; invalid: the payloads that
\* proto.Unmarshal rejects.
RECURSIVE readSpans(_, _, _, _, _)
readSpans(f, pos, remainSpanCount, traceRecords, invalid) ==
    IF remainSpanCount <= 0
    THEN [err |-> nil, pos |-> pos, traceRecords |-> traceRecords]
    ELSE LET h == ReadFull(f, pos, 4)
         IN  IF h.err # nil
             THEN [err |-> <<"cannot have span size">> \o h.err, pos |-> h.pos,
                   traceRecords |-> traceRecords]
             ELSE LET spanSize == ToInt(h.buf)
                      b == ReadFull(f, h.pos, spanSize)
                  IN  IF spanSize < 0
                      THEN [err |-> <<"invalid span size">>, pos |-> h.pos,
                            traceRecords |-> traceRecords]
                      ELSE IF spanSize = 0
                      THEN readSpans(f, h.pos, remainSpanCount, traceRecords, invalid)
                      ELSE IF b.err # nil
                      THEN [err |-> <<"cannot read span data">> \o b.err, pos |-> b.pos,
                            traceRecords |-> traceRecords]
                      ELSE IF b.buf \in invalid
                      THEN [err |-> <<"cannot unmarshal span data">>, pos |-> b.pos,
                            traceRecords |-> traceRecords]
                      ELSE readSpans(f, b.pos, remainSpanCount - 1,
                                     Append(traceRecords, b.buf), invalid)

Records == UNION {[1..n -> ByteChoices] : n \in 0..MaxRecLen}

InvalidChoices == {{}, {<<7>>}}

\* The records s[1..n] as batches that end at the marks in ends and at n.
RECURSIVE Split(_, _, _)
Split(s, ends, from) ==
    IF from > Len(s) THEN <<>>
    ELSE LET to == CHOOSE e \in (ends \cup {Len(s)}) :
                       e >= from /\ \A o \in ends : o >= from => e <= o
         IN  <<SubSeq(s, from, to)>> \o Split(s, ends, to + 1)

RECURSIVE FileOf(_)
FileOf(batches) ==
    IF batches = <<>> THEN <<>>
    ELSE marshalSpans(Head(batches)) \o FileOf(Tail(batches))

RECURSIVE TotalLen(_)
TotalLen(s) == IF s = <<>> THEN 0 ELSE 4 + Len(Head(s)) + TotalLen(Tail(s))

\* The place in the file of the highest byte of the length field of record j
\* of the records s that are split into batches at ends.
LengthTop(s, ends, j) ==
    4 * (1 + Cardinality({e \in ends : e < j})) + TotalLen(SubSeq(s, 1, j - 1)) + 4

\* What was done to the file after it was written: nothing, cut bytes taken
\* off its end, or the highest bit set in the length field of record flip.
Damages(n) ==
    {[cut |-> c, flip |-> 0, intBits |-> 64] : c \in 0..MaxCut}
        \cup {[cut |-> 0, flip |-> j, intBits |-> b] : j \in 1..n, b \in IntBits}

\* ImportTraceFile has opened a segment file that ExportSpans calls wrote,
\* whole or with its last bytes missing or with a length field overwritten.
InitReader ==
    /\ cfg = [retainHours |-> 1, fileSizeLimit |-> MinFileSizeLimit]
    /\ x = NewFilesTraceExporter
    /\ fs = EmptyDisk
    /\ now = 0
    /\ nCalls = 0
    /\ last = NoCall
    /\ pre = [x |-> x, fs |-> fs]
    /\ created = <<>>
    /\ ConcIdle
    /\ \E n \in 1..MaxRecords :
         \E s \in [1..n -> Records], ends \in SUBSET (1..(n - 1)), d \in Damages(n) :
            LET src == Split(s, ends, 1)
                whole == FileOf(src)
                top == LengthTop(s, ends, d.flip)
            IN  /\ d.cut <= Len(whole)
                /\ rd = [NoReplay EXCEPT
                            !.pc = "count",
                            !.file = IF d.flip = 0 THEN SubSeq(whole, 1, Len(whole) - d.cut)
                                     ELSE [whole EXCEPT ![top] = @ + 128],
                            !.src = src, !.cut = d.cut,
                            !.flip = IF d.flip = 0 THEN 0 ELSE top,
                            !.intBits = d.intBits]

\* Lines 23-58: one batch is read, or the call returns.
ReadBatch ==
    /\ rd.pc = "count"
    /\ \E invalid \in InvalidChoices :
         LET h == ReadFull(rd.file, rd.pos, 4)
             r == readSpans(rd.file, h.pos, ToInt(h.buf), <<>>, invalid)
         IN  IF h.err # nil
             THEN rd' = [rd EXCEPT !.pc = "done", !.pos = h.pos,
                            !.err = IF h.err = <<"EOF">> THEN nil
                                    ELSE <<"cannot have span count">> \o h.err]
             ELSE IF r.err # nil
             THEN rd' = [rd EXCEPT !.pc = "done", !.pos = r.pos, !.err = r.err,
                                   !.traceRecords = r.traceRecords]
             ELSE rd' = [rd EXCEPT !.pc = "upload", !.pos = r.pos, !.err = nil,
                                   !.traceRecords = r.traceRecords,
                                   !.nBatches = @ + 1]
    /\ UNCHANGED <<cfg, x, fs, now, seqvars, concvars>>

\* Lines 59-63: the batch goes to client.UploadTraces, and the loop goes on.
Upload ==
    /\ rd.pc = "upload"
    /\ IF Len(rd.traceRecords) > 0
       THEN \E ok \in BOOLEAN :
               rd' = [rd EXCEPT !.pc = "count",
                          !.uploads = Append(@, [records |-> rd.traceRecords,
                                                 ok |-> ok, pos |-> rd.pos]),
                          !.err = IF ok THEN nil ELSE <<"cannot upload spans", "upload failed">>]
       ELSE rd' = [rd EXCEPT !.pc = "count"]
    /\ UNCHANGED <<cfg, x, fs, now, seqvars, concvars>>

NextReader == ReadBatch \/ Upload

SpecReader == InitReader /\ [][NextReader]_vars

\* --------------------------------- properties of SpecExports, SpecConc
InCritical(p) == pc[p] \in {"prepare", "check", "write", "update", "unlock"}

\* The call that wrote batch id has returned or is past its Write.
Written(id) ==
    \E p \in Exporters :
        /\ id[1] = p
        /\ (id[2] < loc[p].calls) \/ (id[2] = loc[p].calls /\ pc[p] \in {"update", "unlock", "idle"})

Pos(id) == CHOOSE i \in 1..Len(order) : order[i].id = id

PathBefore(p, q) == (p[1] < q[1]) \/ (p[1] = q[1] /\ SerialOf(p) < SerialOf(q))

C6_Mutex ==
    /\ Cardinality({p \in Exporters : InCritical(p)}) <= 1
    /\ \A p \in Exporters : InCritical(p) => (lckOutput = p)

\* Between the rotation decision and the Write of a call nothing has touched
\* the exporter, and the file decided on is open.
C6_Decision ==
    \A p \in Exporters :
        /\ (pc[p] \in {"check", "write"})
            => (x = loc[p].seen /\ (x.outputFp # nil => x.outputFp \in fds))
        /\ (pc[p] \in {"update", "unlock"} /\ loc[p].seen # nil /\ loc[p].err = nil
                /\ loc[p].seen.outputFp # nil)
            => LET f == fs.segs[loc[p].seen.outputFp]
               IN  f[Len(f)] = Rec(loc[p].id, loc[p].size)

C6_Order ==
    /\ \A i \in 1..Len(order) :
         /\ StoredIn(fs, order[i].id) \subseteq {p \in DOMAIN fs.segs : FolderOf(p) = order[i].folder}
         /\ Cardinality(StoredIn(fs, order[i].id))
                = (IF Written(order[i].id) /\ order[i].folder \in fs.dirs THEN 1 ELSE 0)
         /\ \A p \in DOMAIN fs.segs : Copies(fs.segs[p], order[i].id) <= 1
    /\ \A p, q \in DOMAIN fs.segs :
         \A i \in 1..Len(fs.segs[p]), j \in 1..Len(fs.segs[q]) :
            (PathBefore(p, q) \/ (p = q /\ i < j))
                => Pos(fs.segs[p][i].id) < Pos(fs.segs[q][j].id)

\* C6: concurrent ExportSpans calls are serialized by lckOutput: one call at a
\* time is between Lock and Unlock, nothing changes the exporter between its
\* rotation decision and its Write, every batch is written once, whole, into
\* one file of the folder that was current for its call (where it stays until
\* the folder is purged), and the files hold the batches in the order the calls
\* got the lock.
C6_ExportsSerialized == C6_Mutex /\ C6_Decision /\ C6_Order

\* e1 is about to write into a file that holds a batch of e2 while e2, in
\* its next call, waits for the lock.
C6_Witness ==
    /\ pc["e1"] = "write" /\ pc["e2"] = "lock"
    /\ lckOutput = "e1"
    /\ loc["e2"].calls = 2
    /\ x.outputFp # nil
    /\ \E i \in 1..Len(fs.segs[x.outputFp]) : fs.segs[x.outputFp][i].id[1] = "e2"

C7_NoInterference ==
    \A p \in Exporters :
        (pc[p] \in {"check", "write"})
            => (x = loc[p].seen /\ (x.outputFp # nil => x.outputFp \in fds))

NoDuplicates(f) == \A i, j \in 1..Len(f) : (f[i] = f[j]) => (i = j)

C7_ClosedOnce ==
    /\ \A folder \in DOMAIN fs.index : NoDuplicates(fs.index[folder])
    /\ \A p \in Procs : Len(SelectSeq(loc[p].err, LAMBDA e : e = "cannot close file")) = 0

\* C7: all accesses of the rotation state are made under the lock, so that a
\* Shutdown running beside an ExportSpans does not close the file, reset
\* currentSize or advance the serial between the rotation decision and the
\* Write of that call, and no file is closed or indexed twice.
C7_SingleLock == C7_NoInterference /\ C7_ClosedOnce

\* ------------------------------------------------- properties of SpecReader
\* The file holds every byte the encoder wrote and the deserializer has
\* accepted every payload it was given.
C9_Case ==
    /\ rd.pc # "idle"
    /\ rd.cut = 0 /\ rd.flip = 0
    /\ (rd.err = nil) \/ (Head(rd.err) # "cannot unmarshal span data")

\* Every batch read so far is the batch that was encoded at that place, the
\* decoder stands where the next batch begins, and the call ends in success
\* after the last batch.
C9_Outcome ==
    /\ rd.nBatches <= Len(rd.src)
    /\ (rd.pc = "upload")
        => /\ rd.traceRecords = rd.src[rd.nBatches]
           /\ rd.pos = Len(FileOf(SubSeq(rd.src, 1, rd.nBatches)))
    /\ (rd.pc = "count") => (rd.pos = Len(FileOf(SubSeq(rd.src, 1, rd.nBatches))))
    /\ (rd.pc = "done") => (rd.err = nil /\ rd.nBatches = Len(rd.src))
    /\ \A i \in 1..Len(rd.uploads) : rd.uploads[i].records = rd.src[i]

NoEmptyRecord ==
    \A i \in 1..Len(rd.src) : \A j \in 1..Len(rd.src[i]) : Len(rd.src[i][j]) > 0

\* C9 as stated, for records of any length.
C9_AsStated == C9_Case => C9_Outcome

\* C9: decoding what marshalSpans encoded gives back the same batches, with
\* the same records in the same order and the same boundaries, when no
\* record is of length zero.
C9_RoundTrip == (C9_Case /\ NoEmptyRecord) => C9_Outcome

\* The second batch of a file, of two records of different lengths, has been
\* decoded.
C9_Witness ==
    /\ C9_Case /\ NoEmptyRecord
    /\ rd.pc = "upload"
    /\ rd.nBatches = 2
    /\ rd.traceRecords = <<<<7, 7>>, <<7>>>>
    /\ rd.traceRecords = rd.src[2]

\* C10: after client.UploadTraces has failed, no further batch of the file is
\* read or uploaded, and the call returns the error of the upload.
C10_StopsAtUploadFailure ==
    \A i \in 1..Len(rd.uploads) :
        (~rd.uploads[i].ok)
            => /\ i = Len(rd.uploads)
               /\ rd.pos = rd.uploads[i].pos
               /\ (rd.pc = "done") => (rd.err # nil /\ Head(rd.err) = "cannot upload spans")

\* The place in the file where batch k + 1 begins.
Offset(k) == Len(FileOf(SubSeq(rd.src, 1, k)))

\* The number of batches that the file holds to their last byte.
Complete ==
    CHOOSE k \in 0..Len(rd.src) :
        /\ Offset(k) <= Len(rd.file)
        /\ (k = Len(rd.src)) \/ (Offset(k + 1) > Len(rd.file))

Unmarshalled == (rd.err = nil) \/ (Head(rd.err) # "cannot unmarshal span data")

TruncationErrors ==
    {<<"cannot have span count", "unexpected EOF">>,
     <<"cannot have span size", "EOF">>, <<"cannot have span size", "unexpected EOF">>,
     <<"cannot read span data", "EOF">>, <<"cannot read span data", "unexpected EOF">>}

\* A file that ExportSpans wrote, cut at any place or not at all, whose
\* payloads the deserializer accepts.
C11_Case == rd.pc # "idle" /\ rd.flip = 0 /\ Unmarshalled

C11_Outcome ==
    /\ \A i \in 1..Len(rd.uploads) :
          i <= Complete /\ rd.uploads[i].records = rd.src[i]
    /\ (rd.pc = "done")
        => /\ (rd.err = nil) <=> (Len(rd.file) = Offset(Complete))
           /\ (rd.err # nil) => (rd.err \in TruncationErrors)
           /\ Len(rd.uploads) = Complete

\* C11 as stated, for batches of records of any length.
C11_AsStated == C11_Case => C11_Outcome

\* C11: ImportTraceFile returns success exactly when the file ends where a
\* count field would begin, a truncation error otherwise, and in both cases
\* client.UploadTraces has been called, in order, for the batches that are in
\* the file to their last byte and for nothing else, when no record is of
\* length zero.
C11_TruncationDetected == (C11_Case /\ NoEmptyRecord) => C11_Outcome

\* The file ends inside the payload of its second batch: the first batch was
\* uploaded and the call has returned the truncation error.
C11_Witness ==
    /\ C11_Case /\ NoEmptyRecord
    /\ rd.pc = "done"
    /\ rd.cut = 1 /\ Len(rd.src) = 2 /\ Len(rd.src[2][Len(rd.src[2])]) = 2
    /\ rd.err = <<"cannot read span data", "unexpected EOF">>
    /\ Len(rd.uploads) = 1

\* The decoder has come, in step with the encoder, to a length field whose
\* highest bit is set, and has returned.
C12_Case ==
    /\ rd.pc = "done"
    /\ rd.flip # 0
    /\ NoEmptyRecord /\ Unmarshalled

\* A length field of 0 before a record: the batch of one record is read with
\* the field passed over.
C12_ZeroSkipped ==
    LET r == readSpans(PutUint32(0) \o PutUint32(1) \o <<7>>, 0, 1, <<>>, {})
    IN  r.err = nil /\ r.traceRecords = <<<<7>>>> /\ r.pos = 9

\* C12: a length field of 2^31 or more ends the call with the error of an
\* invalid span size, the decoder standing right behind the field, no byte of
\* a payload read; a length field of 0 is passed over and is not counted.
C12_CorruptLength ==
    /\ C12_Case => (rd.err = <<"invalid span size">> /\ rd.pos = rd.flip)
    /\ C12_ZeroSkipped

====
